---------------------------- MODULE Spec2Model ----------------------------
(***************************************************************************)
(* Customer ledger (src/app.py): a customers table, a transactions table,  *)
(* the startup migration init_db, the session gate, the request handlers   *)
(* and the CSV export / import.                                            *)
(*                                                                         *)
(* Text is a sequence of one-character strings, so that strip(), int()     *)
(* and float() are computed character by character.  A nullable value is   *)
(* None (the empty tuple) or Some(v) (the one-element tuple).  An amount   *)
(* is a whole number of hundredths: the amount texts of the model carry at *)
(* most two decimals, so the float arithmetic of the code is exact on      *)
(* them.  The created_at column is only the sort key of the listings and   *)
(* is left out: no operation modelled here reads it back.                  *)
(*                                                                         *)
(* A request handler is an operator of the current store and session that  *)
(* yields the store it leaves and the response it returns; the action of   *)
(* the handler installs that store.  custSeq and txnSeq are the            *)
(* AUTOINCREMENT counters of the two tables.                               *)
(***************************************************************************)
EXTENDS Integers, Sequences, FiniteSets, Bags, TLC

VARIABLES tables, cols, customers, transactions, custSeq, txnSeq, logged_in

vars == <<tables, cols, customers, transactions, custSeq, txnSeq, logged_in>>

-----------------------------------------------------------------------------
(* Bounds of the model.                                                    *)

MaxCustomers == 1

MaxTxns == 2

MaxRows == 2

MaxLegacy == 1

-----------------------------------------------------------------------------
(* Python values.                                                          *)

None == <<>>

Some(v) == <<v>>

Val(o) == o[1]

\* x or d, for an optional text x: None and the empty text are falsy.
OrElse(o, d) == IF o = None \/ Val(o) = <<>> THEN d ELSE Val(o)

\* text or None (app.py: "phone or None", "note or None")
OrNone(s) == IF s = <<>> THEN None ELSE Some(s)

IsSpace(c) == c = " "

RECURSIVE LStrip(_)
LStrip(s) == IF s # <<>> /\ IsSpace(Head(s)) THEN LStrip(Tail(s)) ELSE s

RECURSIVE RStrip(_)
RStrip(s) ==
    IF s # <<>> /\ IsSpace(s[Len(s)]) THEN RStrip(SubSeq(s, 1, Len(s) - 1)) ELSE s

\* str.strip()
Strip(s) == RStrip(LStrip(s))

Digits == <<"0", "1", "2", "3", "4", "5", "6", "7", "8", "9">>

IsDigit(c) == \E i \in 1..Len(Digits) : Digits[i] = c

DigitVal(c) == (CHOOSE i \in 1..Len(Digits) : Digits[i] = c) - 1

AllDigits(s) == \A i \in 1..Len(s) : IsDigit(s[i])

RECURSIVE DigitsVal(_)
DigitsVal(s) ==
    IF s = <<>> THEN 0
    ELSE 10 * DigitsVal(SubSeq(s, 1, Len(s) - 1)) + DigitVal(s[Len(s)])

IsSign(c) == c = "-" \/ c = "+"

\* The sign and the unsigned rest of a stripped numeric text.
Unsigned(t) == IF t # <<>> /\ IsSign(Head(t)) THEN Tail(t) ELSE t

SignOf(t) == IF t # <<>> /\ Head(t) = "-" THEN -1 ELSE 1

\* int(text): Some(n), or None for ValueError.
ParseInt(s) ==
    LET t == Strip(s)
        u == Unsigned(t)
    IN  IF u # <<>> /\ AllDigits(u) THEN Some(SignOf(t) * DigitsVal(u)) ELSE None

DotAt(u) == IF \E i \in 1..Len(u) : u[i] = "."
            THEN CHOOSE i \in 1..Len(u) : u[i] = "." /\ \A j \in 1..(i - 1) : u[j] # "."
            ELSE 0

\* float(text) in hundredths: Some(n), or None for ValueError.
ParseFloat(s) ==
    LET t == Strip(s)
        u == Unsigned(t)
        d == DotAt(u)
        ip == IF d = 0 THEN u ELSE SubSeq(u, 1, d - 1)
        fp == IF d = 0 THEN <<>> ELSE SubSeq(u, d + 1, Len(u))
        f2 == IF Len(fp) = 0 THEN <<"0", "0">>
              ELSE IF Len(fp) = 1 THEN fp \o <<"0">> ELSE fp
    IN  IF /\ AllDigits(ip) /\ AllDigits(fp)
           /\ Len(ip) + Len(fp) > 0
           /\ Len(fp) <= 2
        THEN Some(SignOf(t) * (100 * DigitsVal(ip) + DigitsVal(f2)))
        ELSE None

\* abs(x)
Abs(x) == IF x < 0 THEN -x ELSE x

RECURSIVE NatStr(_)
NatStr(n) == IF n < 10 THEN <<Digits[n + 1]>>
             ELSE NatStr(n \div 10) \o <<Digits[(n % 10) + 1]>>

\* str(n) for an integer
IntStr(n) == IF n < 0 THEN <<"-">> \o NatStr(-n) ELSE NatStr(n)

\* '%.2f' % x, for x in hundredths
Fmt2(x) ==
    LET a == Abs(x)
        c == a % 100
    IN  (IF x < 0 THEN <<"-">> ELSE <<>>) \o NatStr(a \div 100) \o <<".">>
        \o <<Digits[(c \div 10) + 1], Digits[(c % 10) + 1]>>

-----------------------------------------------------------------------------
(* Texts of the program and of the inputs.                                 *)

Debit == <<"d", "e", "b", "i", "t">>

Credit == <<"c", "r", "e", "d", "i", "t">>

Migrated == <<"m", "i", "g", "r", "a", "t", "e", "d">>

\* A type text that is neither debit nor credit.
Refund == <<"r", "e", "f", "u", "n", "d">>

\* ADMIN_PASSWORD
ADMIN_PASSWORD == <<"p", "w">>

-----------------------------------------------------------------------------
(* The store.                                                              *)
(* customers: records [id, name, phone, amount]; amount is the legacy      *)
(* column, None where the column is missing or NULL.                       *)
(* transactions: records [id, customer_id, amount, type, note].            *)

Customer(id, name, phone) ==
    [id |-> id, name |-> name, phone |-> phone, amount |-> None]

Txn(id, cid, amount, ttype, note) ==
    [id |-> id, customer_id |-> cid, amount |-> amount, type |-> ttype, note |-> note]

RECURSIVE SumSigned(_)
SumSigned(rows) ==
    IF rows = {} THEN 0
    ELSE LET r == CHOOSE x \in rows : TRUE
         IN  (IF r.type = Debit THEN r.amount ELSE -r.amount) + SumSigned(rows \ {r})

\* compute_balance(db, customer_id)
compute_balance(txns, customer_id) ==
    SumSigned({t \in txns : t.customer_id = customer_id})

TablesReady == {"customers", "transactions"} \subseteq tables

-----------------------------------------------------------------------------
(* Results of a handler: the store it leaves and its response.             *)

EmptyBody == [header |-> <<>>, rows |-> <<>>]

Resp(status, flash, added, body) ==
    [status |-> status, flash |-> flash, added |-> added, body |-> body]

Forbidden == Resp(403, "", 0, EmptyBody)

NotFound == Resp(404, "", 0, EmptyBody)

Redirect(flash) == Resp(302, flash, 0, EmptyBody)

Page(body) == Resp(200, "", 0, body)

Result(custs, txns, cseq, tseq, resp) ==
    [customers |-> custs, transactions |-> txns, custSeq |-> cseq, txnSeq |-> tseq,
     response |-> resp]

\* The store is left as it is.
Unchanged(resp) == Result(customers, transactions, custSeq, txnSeq, resp)

\* require_login answering True whatever the session holds.
require_login_open == TRUE

\* require_login()
require_login == logged_in

\* The action of a handler whose result is r.
Serve(r) ==
    /\ TablesReady
    /\ r.custSeq <= MaxCustomers
    /\ r.txnSeq <= MaxTxns
    /\ customers' = r.customers
    /\ transactions' = r.transactions
    /\ custSeq' = r.custSeq
    /\ txnSeq' = r.txnSeq
    /\ UNCHANGED <<tables, cols, logged_in>>

-----------------------------------------------------------------------------
(* Startup migration.                                                      *)

MigrationRows == {c \in customers : c.amount # None /\ Val(c.amount) # 0}

\* The migration with every amount moved as a debit.
MigratedTxnsAllDebit ==
    { Txn(txnSeq + Cardinality({d \in MigrationRows : d.id <= c.id}),
          c.id, Abs(Val(c.amount)), Debit, Some(Migrated)) : c \in MigrationRows }

\* The rows init_db inserts for the legacy amount column, ids in rowid order.
MigratedTxns ==
    { Txn(txnSeq + Cardinality({d \in MigrationRows : d.id <= c.id}),
          c.id, Abs(Val(c.amount)),
          IF Val(c.amount) > 0 THEN Debit ELSE Credit,
          Some(Migrated)) : c \in MigrationRows }

\* init_db(): the transactions table it leaves.
init_db ==
    IF "customers" \in tables /\ "amount" \in cols
    THEN transactions \cup MigratedTxns
    ELSE transactions

InitDb ==
    /\ Cardinality(init_db) - Cardinality(transactions) + txnSeq <= MaxTxns
    /\ cols' = IF "customers" \in tables THEN cols \cup {"phone"}
               ELSE {"id", "name", "phone"}
    /\ transactions' = init_db
    /\ txnSeq' = txnSeq + Cardinality(init_db) - Cardinality(transactions)
    /\ tables' = tables \cup {"customers", "transactions"}
    /\ UNCHANGED <<customers, custSeq, logged_in>>

-----------------------------------------------------------------------------
(* Session.                                                                *)

\* login(): session['logged_in'] after the POST of password pw.
login(pw) == IF pw = ADMIN_PASSWORD THEN TRUE ELSE logged_in

\* logout(): session.clear()
logout == FALSE

\* The action of a session handler that leaves the session as s.
SetSession(s) ==
    /\ logged_in' = s
    /\ UNCHANGED <<tables, cols, customers, transactions, custSeq, txnSeq>>

-----------------------------------------------------------------------------
(* Ledger handlers.                                                        *)

\* request.form.get(key, default)
FormGet(o, default) == IF o = None THEN default ELSE Val(o)

\* add_customer giving the new row the last id handed out, not the next one.
add_customer_reused_id(form) ==
    LET name == Strip(FormGet(form.name, <<>>))
        phone == Strip(FormGet(form.phone, <<>>))
    IN  IF ~require_login THEN Unchanged(Forbidden)
        ELSE IF name = <<>> THEN Unchanged(Redirect("Name required"))
        ELSE Result(customers \cup {Customer(custSeq, name, OrNone(phone))},
                    transactions, custSeq + 1, txnSeq, Redirect("Customer added"))

\* add_customer without the strip() of the name.
add_customer_unstripped(form) ==
    LET name == FormGet(form.name, <<>>)
        phone == Strip(FormGet(form.phone, <<>>))
    IN  IF ~require_login THEN Unchanged(Forbidden)
        ELSE IF name = <<>> THEN Unchanged(Redirect("Name required"))
        ELSE Result(customers \cup {Customer(custSeq + 1, name, OrNone(phone))},
                    transactions, custSeq + 1, txnSeq, Redirect("Customer added"))

add_customer(form) ==
    LET name == Strip(FormGet(form.name, <<>>))
        phone == Strip(FormGet(form.phone, <<>>))
    IN  IF ~require_login THEN Unchanged(Forbidden)
        ELSE IF name = <<>> THEN Unchanged(Redirect("Name required"))
        ELSE Result(customers \cup {Customer(custSeq + 1, name, OrNone(phone))},
                    transactions, custSeq + 1, txnSeq, Redirect("Customer added"))

\* delete_customer with the DELETE FROM transactions statement left out.
delete_customer_row_only(cust_id) ==
    IF ~require_login THEN Unchanged(Forbidden)
    ELSE Result({c \in customers : c.id # cust_id}, transactions,
                custSeq, txnSeq, Redirect("Customer and transactions deleted"))

delete_customer(cust_id) ==
    IF ~require_login THEN Unchanged(Forbidden)
    ELSE Result({c \in customers : c.id # cust_id},
                {t \in transactions : t.customer_id # cust_id},
                custSeq, txnSeq, Redirect("Customer and transactions deleted"))

\* add_transaction storing the amount as entered, without abs().
add_transaction_signed(cust_id, form) ==
    LET amount == ParseFloat(FormGet(form.amount, <<"0">>))
        ttype0 == FormGet(form.type, Debit)
        ttype == IF ttype0 \notin {Debit, Credit} THEN Debit ELSE ttype0
        note == Strip(FormGet(form.note, <<>>))
    IN  IF ~require_login THEN Unchanged(Forbidden)
        ELSE IF amount = None THEN Unchanged(Redirect("Invalid amount"))
        ELSE Result(customers,
                    transactions \cup
                        {Txn(txnSeq + 1, cust_id, Val(amount), ttype, OrNone(note))},
                    custSeq, txnSeq + 1, Redirect("Transaction added"))

add_transaction(cust_id, form) ==
    LET amount == ParseFloat(FormGet(form.amount, <<"0">>))
        ttype0 == FormGet(form.type, Debit)
        ttype == IF ttype0 \notin {Debit, Credit} THEN Debit ELSE ttype0
        note == Strip(FormGet(form.note, <<>>))
    IN  IF ~require_login THEN Unchanged(Forbidden)
        ELSE IF amount = None THEN Unchanged(Redirect("Invalid amount"))
        ELSE Result(customers,
                    transactions \cup
                        {Txn(txnSeq + 1, cust_id, Abs(Val(amount)), ttype, OrNone(note))},
                    custSeq, txnSeq + 1, Redirect("Transaction added"))

-----------------------------------------------------------------------------
(* Read handlers and CSV export.                                           *)

\* The rows of a table sorted by id, descending (ORDER BY id DESC).
RECURSIVE ByIdDesc(_)
ByIdDesc(rows) ==
    IF rows = {} THEN <<>>
    ELSE LET r == CHOOSE x \in rows : \A y \in rows : y.id <= x.id
         IN  <<r>> \o ByIdDesc(rows \ {r})

CustomerHeader == <<"id", "name", "phone", "balance">>

TxnHeader == <<"id", "customer_id", "amount", "type", "note">>

\* writer.writerow([r['id'], r['name'], r['phone'] or '', '%.2f' % bal])
CustomerCsvRow(c, txns) ==
    [id |-> Some(IntStr(c.id)), name |-> Some(c.name),
     phone |-> Some(OrElse(c.phone, <<>>)),
     balance |-> Some(Fmt2(compute_balance(txns, c.id)))]

\* writer.writerow([r['id'], r['customer_id'], '%.2f' % r['amount'], r['type'], r['note'] or ''])
TxnCsvRow(t) ==
    [id |-> Some(IntStr(t.id)), customer_id |-> Some(IntStr(t.customer_id)),
     amount |-> Some(Fmt2(t.amount)), type |-> Some(t.type),
     note |-> Some(OrElse(t.note, <<>>))]

\* export_csv('customers'): the file written, rows in ORDER BY id DESC.
ExportCustomers(custs, txns) ==
    LET sorted == ByIdDesc(custs)
    IN  [header |-> CustomerHeader,
         rows |-> [i \in 1..Len(sorted) |-> CustomerCsvRow(sorted[i], txns)]]

\* export_csv('transactions'): the rows are kept as a set, their order being
\* that of created_at.
ExportTransactions(txns, customer_id) ==
    [header |-> TxnHeader,
     rows |-> {TxnCsvRow(t) : t \in {x \in txns :
                   customer_id = None \/ x.customer_id = Val(customer_id)}}]

\* index(), without a search text: every customer with its balance.
index == Unchanged(Page(ExportCustomers(customers, transactions)))

\* customer_detail(cust_id): the customer with its balance and transactions.
customer_detail(cust_id) ==
    IF \E c \in customers : c.id = cust_id
    THEN Unchanged(Page([header |-> CustomerHeader,
                         rows |-> ExportCustomers({c \in customers : c.id = cust_id},
                                                  transactions).rows,
                         txns |-> ExportTransactions(transactions, Some(cust_id)).rows]))
    ELSE Unchanged(NotFound)

export_csv(what, customer_id) ==
    IF what = "customers"
    THEN Unchanged(Page(ExportCustomers(customers, transactions)))
    ELSE IF what = "transactions"
    THEN Unchanged(Page(ExportTransactions(transactions, customer_id)))
    ELSE Unchanged(NotFound)

-----------------------------------------------------------------------------
(* CSV import.                                                             *)
(* A file is [header, rows]; a row is what csv.DictReader yields: a        *)
(* record keyed by the header's names, a field being Some(text), or None   *)
(* where the line was short.                                               *)

\* row.get(key)
RowGet(row, key) == IF key \in DOMAIN row THEN row[key] ELSE None

\* The customer branch storing the phone text as read, without "or None".
ImportCustomerRowKeepEmpty(st, row) ==
    LET name == Strip(OrElse(RowGet(row, "name"), <<>>))
        phone == Strip(OrElse(RowGet(row, "phone"), <<>>))
    IN  IF name # <<>>
        THEN [st EXCEPT !.customers = @ \cup {Customer(st.custSeq + 1, name, Some(phone))},
                        !.custSeq = @ + 1,
                        !.response.added = @ + 1]
        ELSE st

\* The customer branch of the loop body of import_csv.
ImportCustomerRow(st, row) ==
    LET name == Strip(OrElse(RowGet(row, "name"), <<>>))
        phone == Strip(OrElse(RowGet(row, "phone"), <<>>))
    IN  IF name # <<>>
        THEN [st EXCEPT !.customers = @ \cup {Customer(st.custSeq + 1, name, OrNone(phone))},
                        !.custSeq = @ + 1,
                        !.response.added = @ + 1]
        ELSE st

\* The transaction branch counting the row before it is parsed.
ImportTxnRowCounted(st, row) ==
    LET cid == IF RowGet(row, "customer_id") = None THEN None
               ELSE ParseInt(Val(RowGet(row, "customer_id")))
        amt == IF OrElse(RowGet(row, "amount"), <<>>) = <<>> THEN Some(0)
               ELSE ParseFloat(Val(RowGet(row, "amount")))
        ttype == OrElse(RowGet(row, "type"), Debit)
        note == OrElse(RowGet(row, "note"), <<>>)
    IN  IF cid = None \/ amt = None
        THEN [st EXCEPT !.response.added = @ + 1]
        ELSE [st EXCEPT !.transactions = @ \cup
                            {Txn(st.txnSeq + 1, Val(cid), Abs(Val(amt)), ttype, OrNone(note))},
                        !.txnSeq = @ + 1,
                        !.response.added = @ + 1]

\* The transaction branch: the try block, and the except that skips the row.
ImportTxnRow(st, row) ==
    LET cid == IF RowGet(row, "customer_id") = None THEN None
               ELSE ParseInt(Val(RowGet(row, "customer_id")))
        amt == IF OrElse(RowGet(row, "amount"), <<>>) = <<>> THEN Some(0)
               ELSE ParseFloat(Val(RowGet(row, "amount")))
        ttype == OrElse(RowGet(row, "type"), Debit)
        note == OrElse(RowGet(row, "note"), <<>>)
    IN  IF cid = None \/ amt = None
        THEN st
        ELSE [st EXCEPT !.transactions = @ \cup
                            {Txn(st.txnSeq + 1, Val(cid), Abs(Val(amt)), ttype, OrNone(note))},
                        !.txnSeq = @ + 1,
                        !.response.added = @ + 1]

\* The loop body of import_csv.
ImportRow(st, row) ==
    IF "name" \in DOMAIN row THEN ImportCustomerRow(st, row)
    ELSE IF "customer_id" \in DOMAIN row /\ "amount" \in DOMAIN row
    THEN ImportTxnRow(st, row)
    ELSE st

\* The loop of import_csv over rows i..Len(rows).
RECURSIVE ImportRows(_, _, _)
ImportRows(st, rows, i) ==
    IF i > Len(rows) THEN st ELSE ImportRows(ImportRow(st, rows[i]), rows, i + 1)

\* import_csv read into the store st (response.added is the count flashed).
ImportInto(st, file) ==
    ImportRows([st EXCEPT !.response = Redirect("Imported rows")], file.rows, 1)

import_csv(f) ==
    IF ~require_login THEN Unchanged(Forbidden)
    ELSE IF f = None THEN Unchanged(Redirect("No file uploaded"))
    ELSE ImportInto(Unchanged(Forbidden), Val(f))

-----------------------------------------------------------------------------
(* Inputs.                                                                 *)

CustomerIds == 1..MaxCustomers

NameInputs == {None, Some(<<" ">>), Some(<<" ", "a">>)}

PhoneInputs == {None, Some(<<"5", " ">>)}

CustomerForms == [name : NameInputs, phone : PhoneInputs]

AmountInputs == {Some(<<"x">>), Some(<<"-", "5", "0">>)}

TypeInputs == {None, Some(Credit), Some(Refund)}

NoteInputs == {Some(<<" ">>)}

TxnForms == [amount : AmountInputs, type : TypeInputs, note : NoteInputs]

Passwords == {ADMIN_PASSWORD, <<"x">>}

ExportNames == {"customers", "transactions", "other"}

ExportArgs == {None, Some(1)}

\* Sequences of 1..n elements of S.
SeqsUpTo(S, n) == UNION {[1..k -> S] : k \in 1..n}

\* Rows of a file whose header is name,phone: an untrimmed name with a
\* phone, and a blank name.
CustomerRows ==
    { [name |-> Some(<<"b", " ">>), phone |-> Some(<<"5">>)],
      [name |-> Some(<<" ">>), phone |-> Some(<<"0">>)] }

\* Rows of a file whose header is name alone, and of one whose lines are
\* short of the phone.
NameOnlyRows == { [name |-> Some(<<"a">>)] }

ShortCustomerRows == { [name |-> Some(<<"a">>), phone |-> None] }

\* Rows of a file whose header is customer_id,amount,type,note.
TxnRows ==
    { [customer_id |-> Some(<<"1">>), amount |-> Some(<<"-", "5">>),
       type |-> Some(Credit), note |-> Some(<<>>)],
      [customer_id |-> Some(<<"x">>), amount |-> Some(<<"2">>),
       type |-> Some(Debit), note |-> Some(<<>>)],
      [customer_id |-> Some(<<"2">>), amount |-> Some(<<"x">>),
       type |-> Some(Debit), note |-> Some(<<>>)] }

\* Rows of a file whose header is customer_id,amount,type: a type that is
\* neither debit nor credit.
TypedTxnRows ==
    { [customer_id |-> Some(<<" ", "2">>), amount |-> Some(<<"2", ".", "5">>),
       type |-> Some(Refund)] }

\* Rows of a file whose header is customer_id,amount and of one whose header
\* names neither a customer nor a transaction.
BareTxnRows == { [customer_id |-> Some(<<"1", ".", "0">>), amount |-> Some(<<"4">>)],
                 [customer_id |-> Some(<<"2">>), amount |-> Some(<<>>)],
                 [customer_id |-> Some(<<" ", "2">>), amount |-> None] }

OtherRows == { [id |-> Some(<<"1">>), balance |-> Some(<<"4">>)] }

File(header, rows) == [header |-> header, rows |-> rows]

Files ==
    {File(<<"name", "phone">>, r) : r \in SeqsUpTo(CustomerRows, MaxRows)}
    \cup {File(<<"name", "phone">>, r) : r \in SeqsUpTo(ShortCustomerRows, 1)}
    \cup {File(<<"name">>, r) : r \in SeqsUpTo(NameOnlyRows, 1)}
    \cup {File(<<"customer_id", "amount", "type", "note">>, r) :
              r \in SeqsUpTo(TxnRows, MaxRows)}
    \cup {File(<<"customer_id", "amount", "type">>, r) : r \in SeqsUpTo(TypedTxnRows, 1)}
    \cup {File(<<"customer_id", "amount">>, r) : r \in SeqsUpTo(BareTxnRows, 1)}
    \cup {File(<<"id", "balance">>, r) : r \in SeqsUpTo(OtherRows, 1)}

Uploads == {None} \cup {Some(f) : f \in Files}

-----------------------------------------------------------------------------
(* Initial stores: no database file yet, or a legacy customers table with  *)
(* an amount column, with or without a phone column, and no transactions   *)
(* table.                                                                  *)

LegacyAmounts == {None, Some(0), Some(700), Some(-300)}

Init ==
    /\ transactions = {}
    /\ txnSeq = 0
    /\ logged_in = FALSE
    /\ \/ /\ tables = {}
          /\ cols = {}
          /\ customers = {}
          /\ custSeq = 0
       \/ /\ tables = {"customers"}
          /\ cols \in {{"id", "name", "amount"}, {"id", "name", "phone", "amount"}}
          /\ \E n \in 1..MaxLegacy :
                 \E f \in [1..n -> LegacyAmounts] :
                     /\ customers = {[id |-> i, name |-> <<"a">>, phone |-> None,
                                      amount |-> f[i]] : i \in 1..n}
                     /\ custSeq = n

Login == \E pw \in Passwords : SetSession(login(pw))

Logout == SetSession(logout)

Index == Serve(index)

AddCustomer == \E form \in CustomerForms : Serve(add_customer(form))

DeleteCustomer == \E id \in CustomerIds : Serve(delete_customer(id))

CustomerDetail == \E id \in CustomerIds : Serve(customer_detail(id))

AddTransaction == \E id \in CustomerIds, form \in TxnForms : Serve(add_transaction(id, form))

ExportCsv == \E what \in ExportNames, id \in ExportArgs : Serve(export_csv(what, id))

ImportCsv == \E f \in Uploads : Serve(import_csv(f))

Next ==
    \/ InitDb
    \/ Login
    \/ Logout
    \/ Index
    \/ AddCustomer
    \/ DeleteCustomer
    \/ CustomerDetail
    \/ AddTransaction
    \/ ExportCsv
    \/ ImportCsv

Spec == Init /\ [][Next]_vars

-----------------------------------------------------------------------------
(* Properties.                                                             *)

RECURSIVE SumAmounts(_)
SumAmounts(rows) ==
    IF rows = {} THEN 0
    ELSE LET r == CHOOSE x \in rows : TRUE IN r.amount + SumAmounts(rows \ {r})

TxnsOf(txns, id, ttype) == {t \in txns : t.customer_id = id /\ t.type = ttype}

\* Every customer id of the model and every id a transaction refers to.
LedgerIds == CustomerIds \cup {t.customer_id : t \in transactions}

\* C1: in every reachable store, the balance of every customer id is the sum
\* of its debit amounts minus the sum of its credit amounts (0 without
\* transactions).
C1_BalanceIsDebitsMinusCredits ==
    \A id \in LedgerIds :
        compute_balance(transactions, id) =
            SumAmounts(TxnsOf(transactions, id, Debit))
            - SumAmounts(TxnsOf(transactions, id, Credit))

\* C2: with a logged-in session, delete_customer(id) leaves no customer with
\* that id and no transaction of that id, whatever the store holds and
\* whether or not the customer exists, and answers with its redirect.
C2_DeleteRemovesCustomerAndTransactions ==
    (logged_in /\ TablesReady) =>
        \A id \in LedgerIds :
            LET r == delete_customer(id)
            IN  /\ \A c \in r.customers : c.id # id
                /\ \A t \in r.transactions : t.customer_id # id
                /\ r.response.status = 302

\* A store in which every customer id and every transaction id handed out is
\* gone again: delete_customer has removed a customer and transactions.
C2_Witness ==
    /\ logged_in
    /\ custSeq >= 1 /\ customers = {}
    /\ txnSeq >= 1 /\ transactions = {}

\* C3: a run of init_db on a store that init_db has already migrated (both
\* tables exist, the customers table has the amount column) leaves the
\* transactions as they are.
C3_SecondInitDbChangesNothing ==
    [][(InitDb /\ TablesReady /\ "amount" \in cols) => transactions' = transactions]_vars

\* C4: in every reachable store, every transaction has type debit or credit.
C4_StoredTypesAreDebitOrCredit ==
    \A t \in transactions : t.type \in {Debit, Credit}

MinusFiftyCredit ==
    [amount |-> Some(<<"-", "5", "0">>), type |-> Some(Credit), note |-> None]

\* C5: in every reachable store every transaction amount is non-negative, and
\* add_transaction of amount -50, type credit, stores one transaction of
\* magnitude 50 and lowers the customer's balance by 50.
C5_AmountsNonNegative ==
    /\ \A t \in transactions : t.amount >= 0
    /\ (logged_in /\ TablesReady) =>
           \A id \in CustomerIds :
               LET r == add_transaction(id, MinusFiftyCredit)
                   new == r.transactions \ transactions
               IN  /\ Cardinality(new) = 1
                   /\ \A t \in new : t.amount = 5000 /\ t.type = Credit
                   /\ compute_balance(r.transactions, id)
                          = compute_balance(transactions, id) - 5000

\* A credit of magnitude 50 is stored: it was entered as -50.
C5_Witness ==
    \E t \in transactions : t.amount = 5000 /\ t.type = Credit /\ t.note = None

StoreOf(r) == <<r.customers, r.transactions, r.custSeq, r.txnSeq>>

\* C6: while the session is not logged in, add_customer, delete_customer,
\* add_transaction and import_csv answer Forbidden and leave the store as it
\* is, a wrong password leaves the session logged out, and index,
\* customer_detail and export_csv answer (200, or 404 for a customer or an
\* export that does not exist) and leave the store as it is.
C6_MutationsNeedLogin ==
    (~logged_in /\ TablesReady) =>
        /\ \A form \in CustomerForms : add_customer(form) = Unchanged(Forbidden)
        /\ \A id \in LedgerIds : delete_customer(id) = Unchanged(Forbidden)
        /\ \A id \in LedgerIds, form \in TxnForms :
               add_transaction(id, form) = Unchanged(Forbidden)
        /\ \A f \in Uploads : import_csv(f) = Unchanged(Forbidden)
        /\ \A pw \in Passwords \ {ADMIN_PASSWORD} : login(pw) = FALSE
        /\ index.response.status = 200
        /\ StoreOf(index) = StoreOf(Unchanged(Forbidden))
        /\ \A id \in LedgerIds :
               /\ customer_detail(id).response.status =
                      IF \E c \in customers : c.id = id THEN 200 ELSE 404
               /\ StoreOf(customer_detail(id)) = StoreOf(Unchanged(Forbidden))
        /\ \A what \in ExportNames, arg \in ExportArgs :
               /\ export_csv(what, arg).response.status =
                      IF what \in {"customers", "transactions"} THEN 200 ELSE 404
               /\ StoreOf(export_csv(what, arg)) = StoreOf(Unchanged(Forbidden))

\* A logged-out session over a store that a logged-in session has filled.
C6_Witness ==
    /\ ~logged_in /\ TablesReady
    /\ "amount" \notin cols
    /\ customers # {} /\ transactions # {}

Range(seq) == {seq[i] : i \in 1..Len(seq)}

IsTxnFile(f) ==
    "name" \notin Range(f.header) /\ {"customer_id", "amount"} \subseteq Range(f.header)

\* The row's customer_id is an integer and its amount is numeric (or empty).
GoodTxnRow(row) ==
    /\ row.customer_id # None
    /\ ParseInt(Val(row.customer_id)) # None
    /\ \/ row.amount = None
       \/ Val(row.amount) = <<>>
       \/ ParseFloat(Val(row.amount)) # None

GoodRowsUpTo(rows, i) == {j \in 1..i : GoodTxnRow(rows[j])}

\* C7: import_csv of any file is never aborted and reports exactly the number
\* of rows it inserted; of a file of transaction rows it inserts every row
\* whose customer_id is an integer and whose amount is numeric, and no other.
C7_ImportSkipsBadRowsOnly ==
    (logged_in /\ TablesReady) =>
        \A f \in Files :
            LET r == import_csv(Some(f))
                newT == r.transactions \ transactions
                newC == r.customers \ customers
            IN  /\ r.response.status = 302
                /\ r.response.flash = "Imported rows"
                /\ r.response.added = Cardinality(newT) + Cardinality(newC)
                /\ IsTxnFile(f) =>
                       /\ newC = {}
                       /\ Cardinality(newT) =
                              Cardinality(GoodRowsUpTo(f.rows, Len(f.rows)))
                       /\ \A i \in GoodRowsUpTo(f.rows, Len(f.rows)) :
                              \E t \in newT :
                                  /\ t.id = txnSeq + Cardinality(GoodRowsUpTo(f.rows, i))
                                  /\ t.customer_id = Val(ParseInt(Val(f.rows[i].customer_id)))

\* A file of two rows, the first one bad, can be imported here, after an
\* import has stored a row.
C7_Witness ==
    /\ logged_in /\ TablesReady
    /\ \E t \in transactions : t.amount = 500 /\ t.type = Credit
    /\ \E f \in Files :
           /\ IsTxnFile(f) /\ Len(f.rows) = 2
           /\ ~GoodTxnRow(f.rows[1]) /\ GoodTxnRow(f.rows[2])
           /\ import_csv(Some(f)).txnSeq <= MaxTxns

Blank(s) == \A i \in 1..Len(s) : s[i] = " "

\* The name is not empty and is trimmed; the phone is absent or not empty.
WellFormed(c) ==
    /\ c.name # <<>> /\ c.name[1] # " " /\ c.name[Len(c.name)] # " "
    /\ c.phone # Some(<<>>)

\* C8: add_customer with a name that is blank is rejected and leaves the
\* store as it is; import_csv skips, and does not count, a customer row whose
\* name is blank; every customer either of them creates has a non-empty
\* trimmed name, and an absent phone where the phone given was blank.
C8_NoCustomerWithoutName ==
    /\ \A c \in customers : WellFormed(c)
    /\ (logged_in /\ TablesReady) =>
           /\ \A form \in CustomerForms :
                  LET r == add_customer(form)
                      new == r.customers \ customers
                  IN  IF Blank(FormGet(form.name, <<>>))
                      THEN r = Unchanged(Redirect("Name required"))
                      ELSE /\ Cardinality(new) = 1
                           /\ \A c \in new :
                                  /\ WellFormed(c)
                                  /\ Blank(FormGet(form.phone, <<>>)) => c.phone = None
           /\ \A f \in Files :
                  "name" \in Range(f.header) =>
                      LET r == import_csv(Some(f))
                          new == r.customers \ customers
                          named == {i \in 1..Len(f.rows) :
                                        /\ f.rows[i].name # None
                                        /\ ~Blank(Val(f.rows[i].name))}
                      IN  /\ \A c \in new : WellFormed(c)
                          /\ Cardinality(new) = Cardinality(named)
                          /\ r.response.added = Cardinality(named)

\* A customer without a phone, created in the current schema.
C8_Witness ==
    /\ logged_in /\ TablesReady
    /\ "amount" \notin cols
    /\ \E c \in customers : c.phone = None

\* The (name, phone) pairs of a set of customers, with their multiplicities.
PairBag(custs) ==
    LET pairs == {<<c.name, c.phone>> : c \in custs}
    IN  [p \in pairs |-> Cardinality({c \in custs : <<c.name, c.phone>> = p})]

EmptyStore == Result({}, {}, 0, 0, Forbidden)

\* C9: the file export_csv writes for the customers, imported into an empty
\* store, is read row by row as customer rows and yields the same (name,
\* phone) pairs, an absent phone staying absent, and no balance.
C9_ExportImportRoundTrip ==
    TablesReady =>
        LET out == export_csv("customers", None).response
            r == ImportInto(EmptyStore, out.body)
        IN  /\ out.status = 200
            /\ Len(out.body.rows) = Cardinality(customers)
            /\ \A i \in 1..Len(out.body.rows) : "name" \in DOMAIN out.body.rows[i]
            /\ PairBag(r.customers) = PairBag(customers)
            /\ r.response.added = Cardinality(customers)
            /\ r.transactions = {}
            /\ \A c \in r.customers : compute_balance(r.transactions, c.id) = 0

\* A customer without a phone whose balance is not 0.
C9_Witness ==
    /\ TablesReady
    /\ \E c \in customers : c.phone = None /\ compute_balance(transactions, c.id) # 0

LegacyAmountOf(c) == IF c.amount = None THEN 0 ELSE Val(c.amount)

\* C10: the run of init_db on a legacy store (a customers table with the
\* amount column, no transactions table) leaves, for each customer with a
\* non-null non-zero amount, exactly one transaction: its id, the absolute
\* amount, debit if positive and credit if negative, note 'migrated'; none
\* for a null or zero amount; and every balance equals the legacy amount.
C10_FirstMigration ==
    [][(InitDb /\ "customers" \in tables /\ "transactions" \notin tables
               /\ "amount" \in cols) =>
          /\ \A t \in transactions' : \E c \in customers : t.customer_id = c.id
          /\ \A c \in customers :
                 LET mine == {t \in transactions' : t.customer_id = c.id}
                 IN  /\ Cardinality(mine) = IF LegacyAmountOf(c) = 0 THEN 0 ELSE 1
                     /\ \A t \in mine :
                            /\ t.amount = Abs(LegacyAmountOf(c))
                            /\ t.type = IF LegacyAmountOf(c) > 0 THEN Debit ELSE Credit
                            /\ t.note = Some(Migrated)
                     /\ compute_balance(transactions', c.id) = LegacyAmountOf(c)]_vars

\* A migrated store holding the credit of a negative legacy amount.
C10_Witness ==
    /\ TablesReady /\ "amount" \in cols
    /\ \E t \in transactions : t.note = Some(Migrated) /\ t.type = Credit

\* The signed sum of the stored transactions that refer to id: the debit
\* amounts minus the amounts of every other type.
StoredSum(txns, id) ==
    SumAmounts(TxnsOf(txns, id, Debit))
    - SumAmounts({t \in txns : t.customer_id = id /\ t.type # Debit})

\* What creating customers leaves, r, against the store before: no
\* transaction is touched, each new customer has an id no customer holds,
\* and its balance is the signed sum of the transactions that already refer
\* to that id, 0 when there is none.
CreatedOnOrphans(r) ==
    /\ r.transactions = transactions
    /\ \A c \in r.customers \ customers :
           /\ \A d \in customers : d.id # c.id
           /\ compute_balance(r.transactions, c.id) = StoredSum(transactions, c.id)
           /\ (\A t \in transactions : t.customer_id # c.id) =>
                  compute_balance(r.transactions, c.id) = 0

=============================================================================
